---- MODULE Spec2Model ----
(***************************************************************************)
(* A model of motif's contour-classification core:                         *)
(*   motif/contour_classifiers/mv_gaussian.py   (MvGaussian)               *)
(*   motif/contour_classifiers/random_forest.py (RandomForest)             *)
(*   motif/run.py                               (registry lookup, pipeline)*)
(*                                                                         *)
(* Conventions.  Python's None is the empty tuple and a present value v is *)
(* the one-element tuple <<v>>.  A real number is a fraction <<n, d>> with *)
(* d > 0, compared by cross-multiplication.  A call's outcome is a record  *)
(* [err, out]: err = "" when the call returned, else the exception's name. *)
(* What the numeric libraries compute (a density, a probability, whether a *)
(* fit succeeds) is an input of the action that makes the call.            *)
(***************************************************************************)
EXTENDS Integers, Sequences, FiniteSets, TLC

VARIABLES
    subject,      \* the instance a call sequence is made on: "mv" for the
                  \* MvGaussian, "rf" for the RandomForest
    mvg,          \* one MvGaussian instance: its four attributes
    rf,           \* one RandomForest instance: its clf attribute
    fitCalls,     \* number of fit calls made so far (names each fit call)
    mvCompleted,  \* history: some MvGaussian.fit call has returned
    rfCompleted,  \* history: some RandomForest.fit call has returned
    last,         \* history: the last classifier call and its outcome
    registries,   \* the three module registries: identifier -> constructor
    instances,    \* the objects constructed so far: instance i has class
                  \* instances[i]
    lookups,      \* history: the registry lookups made, in order
    pc,           \* where the one invocation of process stands
    args,         \* the arguments of the invocation
    modules,      \* process's ce and fe
    classifier,   \* process's cc: None, or its class and
                  \* attributes
    model,        \* what the fitted estimator answers for each feature row
    locals,       \* process's local variables that are bound, by name
    log,          \* history: the calls made on the classifier and on the
                  \* contours, in order
    procErr,      \* the exception process raised and the block that
                  \* raised it; err = "" if none
    result        \* the tuple process returned

clfVars == <<subject, mvg, rf, fitCalls, mvCompleted, rfCompleted, last>>
regVars == <<registries, instances, lookups>>
procVars == <<pc, args, modules, classifier, model, locals, log, procErr,
              result>>
vars == <<clfVars, regVars, procVars>>

---------------------------------------------------------------------------
(* Bounds *)

MaxFits == 2
MaxSamples == 2
MaxLookups == 3
MaxPairs == 2
MaxFiles == 2

---------------------------------------------------------------------------
(* Values *)

None == <<>>
Some(v) == <<v>>

Frac(n, d) == <<n, d>>
FLe(a, b) == a[1] * b[2] <= b[1] * a[2]
FLt(a, b) == a[1] * b[2] < b[1] * a[2]
FEq(a, b) == a[1] * b[2] = b[1] * a[2]
FZero == Frac(0, 1)

SeqsUpTo(S, n) == UNION {[1..k -> S] : k \in 0..n}

Returned(v) == [err |-> "", out |-> v]
Raised(e) == [err |-> e, out |-> None]

---------------------------------------------------------------------------
(* mv_gaussian.py *)

MAX_SCORE == 10000

\* The densities rv.pdf can report for a row: 0 (underflow), an ordinary
\* value, and one large enough for a ratio to exceed MAX_SCORE.
Dens == {0, 1, 2 * MAX_SCORE + 1}

\* MvGaussian.__init__
MvInit == [rv_pos |-> None, rv_neg |-> None, n_feats |-> None, lmbda |-> None]

\* Mutant: the guard reads another attribute that fit also sets.
MvNotFitted_nFeats(self) == self.n_feats = None

\* The guard at the top of MvGaussian.predict
MvNotFitted(self) == self.rv_pos = None

\* arr[idx] = values[idx], for the index array idx
AssignAt(arr, idx, values) ==
    [i \in DOMAIN arr |-> IF i \in idx THEN values[i] ELSE arr[i]]

\* arr[idx] = v, for the index array idx
Fill(arr, idx, v) == [i \in DOMAIN arr |-> IF i \in idx THEN v ELSE arr[i]]

\* Mutant: the zero-numerator rule is applied before the zero-denominator
\* rule, so a row with both densities 0 saturates.
MvRatio_zeroDenomLast(numerator, denominator) ==
    LET n == Len(numerator)
        zeros == [i \in 1..n |-> FZero]
        quot == [i \in 1..n |-> Frac(numerator[i], denominator[i])]
        r1 == AssignAt(zeros, {i \in 1..n : denominator[i] # 0}, quot)
        r2 == Fill(r1, {i \in 1..n : numerator[i] = 0}, FZero)
        r3 == Fill(r2, {i \in 1..n : denominator[i] = 0}, Frac(MAX_SCORE, 1))
    IN  Fill(r3, {i \in 1..n : FLt(Frac(MAX_SCORE, 1), r3[i])},
             Frac(MAX_SCORE, 1))

\* Mutant: the clamp takes the whole array for one value, so one row above
\* MAX_SCORE saturates every row.
MvRatio_clampAll(numerator, denominator) ==
    LET n == Len(numerator)
        zeros == [i \in 1..n |-> FZero]
        quot == [i \in 1..n |-> Frac(numerator[i], denominator[i])]
        r1 == AssignAt(zeros, {i \in 1..n : denominator[i] # 0}, quot)
        r2 == Fill(r1, {i \in 1..n : denominator[i] = 0}, Frac(MAX_SCORE, 1))
        r3 == Fill(r2, {i \in 1..n : numerator[i] = 0}, FZero)
        over == {i \in 1..n : FLt(Frac(MAX_SCORE, 1), r3[i])}
    IN  IF over = {} THEN r3 ELSE Fill(r3, 1..n, Frac(MAX_SCORE, 1))

\* The body of MvGaussian.predict after the densities are evaluated:
\* numerator and denominator hold one density per row.
MvRatio(numerator, denominator) ==
    LET n == Len(numerator)
        zeros == [i \in 1..n |-> FZero]
        nonzero_denom == {i \in 1..n : denominator[i] # 0}
        zero_denom == {i \in 1..n : denominator[i] = 0}
        quot == [i \in 1..n |-> Frac(numerator[i], denominator[i])]
        r1 == AssignAt(zeros, nonzero_denom, quot)
        r2 == Fill(r1, zero_denom, Frac(MAX_SCORE, 1))
        r3 == Fill(r2, {i \in 1..n : numerator[i] = 0}, FZero)
    IN  Fill(r3, {i \in 1..n : FLt(Frac(MAX_SCORE, 1), r3[i])},
             Frac(MAX_SCORE, 1))

\* MvGaussian.predict; numerator = rv_pos.pdf(_transform(X)) and
\* denominator = rv_neg.pdf(_transform(X)) are the library's answers.
MvPredict(self, numerator, denominator) ==
    IF MvNotFitted(self)
    THEN Raised("ReferenceError")
    ELSE IF self.n_feats = None \/ self.lmbda = None
         THEN Raised("TypeError")          \* _transform: range(None), None[i]
         ELSE IF self.rv_pos = None \/ self.rv_neg = None
              THEN Raised("AttributeError")  \* None.pdf
              ELSE Returned(MvRatio(numerator, denominator))

\* MvGaussian._fit_boxcox for fit call k: n_feats is stored first, lmbda
\* only after boxcox has transformed every column.
MvFitBoxcox(self, k, boxcox_ok) ==
    LET s1 == [self EXCEPT !.n_feats = Some(k)]
    IN  IF boxcox_ok THEN [s1 EXCEPT !.lmbda = Some(k)] ELSE s1

\* MvGaussian.fit for fit call k.  how = "ok", or the place where a library
\* call raises: "boxcox" (inside _fit_boxcox), "gauss" (mean, cov or
\* multivariate_normal, after _fit_boxcox has returned).
MvFit(self, k, how) ==
    LET s1 == MvFitBoxcox(self, k, how # "boxcox")
    IN  IF how = "ok"
        THEN [self |-> [s1 EXCEPT !.rv_pos = Some(k), !.rv_neg = Some(k)],
              err |-> ""]
        ELSE [self |-> s1, err |-> "ValueError"]

MvThreshold == Frac(1, 1)

---------------------------------------------------------------------------
(* random_forest.py *)

\* RandomForest.__init__ (the fitted state; the hyper-parameters are fixed)
RfInit == [clf |-> None]

RfNotFitted(self) == self.clf = None

\* RandomForest.predict; proba = self.clf.predict_proba(X)[:, 1]
RfPredict(self, proba) ==
    IF RfNotFitted(self) THEN Raised("ReferenceError") ELSE Returned(proba)

\* RandomForest.predict_discrete_label; labels = self.clf.predict(X)
RfPredictDiscreteLabel(self, labels) ==
    IF RfNotFitted(self) THEN Raised("ReferenceError") ELSE Returned(labels)

\* RandomForest.fit for fit call k; how = "ok", or "search" when shuffle or
\* the randomized search raises.
RfFit(self, k, how) ==
    IF how = "ok"
    THEN [self |-> [self EXCEPT !.clf = Some(k)], err |-> ""]
    ELSE [self |-> self, err |-> "ValueError"]

RfThreshold == Frac(1, 2)

\* The probabilities predict_proba can report, and the class labels
Probs == {Frac(0, 1), Frac(1, 2), Frac(1, 1)}
Labels == {0, 1}

---------------------------------------------------------------------------
(* run.py: the registries and get_module *)

\* The registries of motif.core: identifier -> zero-argument constructor
\* (named by the class it constructs).
CONTOUR_EXTRACTOR_REGISTRY == [salamon |-> "Salamon"]
FEATURE_EXTRACTOR_REGISTRY == [bitteli |-> "BitteliFeatures"]
CONTOUR_CLASSIFIER_REGISTRY ==
    [mv_gaussian |-> "MvGaussian", random_forest |-> "RandomForest"]

Registries0 ==
    [extract |-> CONTOUR_EXTRACTOR_REGISTRY,
     features |-> FEATURE_EXTRACTOR_REGISTRY,
     classify |-> CONTOUR_CLASSIFIER_REGISTRY]

\* The identifiers a caller may pass: None, every registered identifier, and
\* one that no registry holds.
ModuleIds ==
    {None} \cup {Some(id) : id \in {"salamon", "bitteli", "mv_gaussian",
                                    "random_forest", "nope"}}

\* "Algorithm %s can not be found in motif!" % module_id
NotFoundMessage(module_id) ==
    <<"Algorithm ", module_id, " can not be found in motif!">>

\* d restricted to the keys other than k
Without(d, k) == [x \in DOMAIN d \ {k} |-> d[x]]

\* Mutant: the constructor is taken out of the registry (dict.pop) instead
\* of being read from it.
GetModule_pop(module_id, module_registry, heap) ==
    IF module_id = None
    THEN [err |-> "", out |-> None, msg |-> <<>>,
          registry |-> module_registry, heap |-> heap]
    ELSE IF module_id[1] \notin DOMAIN module_registry
         THEN [err |-> "RuntimeError", out |-> None,
               msg |-> NotFoundMessage(module_id[1]),
               registry |-> module_registry, heap |-> heap]
         ELSE [err |-> "", out |-> Some(Len(heap) + 1), msg |-> <<>>,
               registry |-> Without(module_registry, module_id[1]),
               heap |-> Append(heap, module_registry[module_id[1]])]

\* get_module(module_id, module_registry), with heap the objects that exist
\* when it is called.  Calling a constructor adds one object of its class;
\* the new instance is named by its place in the heap.
GetModule(module_id, module_registry, heap) ==
    IF module_id = None
    THEN [err |-> "", out |-> None, msg |-> <<>>,
          registry |-> module_registry, heap |-> heap]
    ELSE IF module_id[1] \notin DOMAIN module_registry    \* KeyError
         THEN [err |-> "RuntimeError", out |-> None,
               msg |-> NotFoundMessage(module_id[1]),
               registry |-> module_registry, heap |-> heap]
         ELSE [err |-> "", out |-> Some(Len(heap) + 1), msg |-> <<>>,
               registry |-> module_registry,
               heap |-> Append(heap, module_registry[module_id[1]])]

InitRegVars ==
    /\ registries = Registries0
    /\ instances = <<>>
    /\ lookups = <<>>

\* One lookup in the registry `kind`, as get_extract_module,
\* get_features_module and get_classify_module make it.
Lookup(kind, module_id) ==
    /\ Len(lookups) < MaxLookups
    /\ LET r == GetModule(module_id, registries[kind], instances)
       IN  /\ registries' = [registries EXCEPT ![kind] = r.registry]
           /\ instances' = r.heap
           /\ lookups' = Append(lookups,
                 [kind |-> kind, module_id |-> module_id, err |-> r.err,
                  out |-> r.out, msg |-> r.msg,
                  before |-> Len(instances), after |-> Len(r.heap)])

GetExtractModule == \E extract_id \in ModuleIds : Lookup("extract", extract_id)
GetFeaturesModule == \E feature_id \in ModuleIds : Lookup("features", feature_id)
GetClassifyModule ==
    \E classifier_id \in ModuleIds : Lookup("classify", classifier_id)

NextReg ==
    \/ GetExtractModule /\ UNCHANGED <<clfVars, procVars>>
    \/ GetFeaturesModule /\ UNCHANGED <<clfVars, procVars>>
    \/ GetClassifyModule /\ UNCHANGED <<clfVars, procVars>>

---------------------------------------------------------------------------
(* run.py: the collaborators process drives *)

\* The audio files and annotations of the model.  Each file holds a fixed
\* number of contours; a feature row is named by its file and contour.
Files == {"a.wav", "b.wav"}
Annotations == {"a.ref", "b.ref"}
FilePairs == {<<"a.wav", "a.ref">>, <<"b.wav", "b.ref">>}
NContours(f) == IF f = "a.wav" THEN 1 ELSE 2
Rows == UNION {{<<f, k>> : k \in 1..NContours(f)} : f \in Files}

\* An integer of a numpy array, as a number
AsInt(n) == Frac(n, 1)

\* contour_extractor.compute_contours(audio_filepath): the file's Contour
ComputeContours(audio_filepath) == [audio |-> audio_filepath]

\* ctr.compute_labels(annotation)[0]: one 0/1 label per contour
ComputeLabels(ctr, annotation) ==
    [k \in 1..NContours(ctr.audio) |->
        IF annotation = "a.ref" THEN AsInt(k % 2) ELSE AsInt((k + 1) % 2)]

\* feature_extractor.compute_all(ctr): one feature row per contour
ComputeAll(ctr) == [k \in 1..NContours(ctr.audio) |-> <<ctr.audio, k>>]

\* test_scores = {}
EmptyDict == <<>>

\* contour_classifier.score(Y_pred, Y_true, y_prob=...): the metrics of the
\* arrays it is handed, or the ValueError of a degenerate label distribution.
Score(Y_pred, Y_true, y_prob, how) ==
    IF how = "ValueError"
    THEN Raised("ValueError")
    ELSE Returned([y_pred |-> Y_pred, y_true |-> Y_true, y_prob |-> y_prob])

---------------------------------------------------------------------------
(* run.py: the classifier as process uses it *)

\* What a fitted estimator answers for a row, relative to the threshold
Levels == {"below", "at", "above"}

\* rv_pos.pdf and rv_neg.pdf of a fitted MvGaussian at a row of that level
PdfPos(level) == IF level = "above" THEN 2 ELSE 1
PdfNeg(level) == IF level = "below" THEN 2 ELSE 1

\* predict_proba(...)[:, 1] of a fitted RandomForest at a row of that level
Proba(level) ==
    CASE level = "below" -> Frac(1, 4)
      [] level = "at" -> Frac(1, 2)
      [] OTHER -> Frac(3, 4)

\* A new instance of the class a registry constructor builds
NewClassifier(cls) ==
    [cls |-> cls, self |-> IF cls = "MvGaussian" THEN MvInit ELSE RfInit]

\* contour_classifier.fit(X, Y), the k-th fit call
ClfFit(c, k, how) ==
    LET r == IF c.cls = "MvGaussian"
             THEN MvFit(c.self, k, how)
             ELSE RfFit(c.self, k, how)
    IN  [c |-> [c EXCEPT !.self = r.self], err |-> r.err]

\* The ways fit can end, per class
FitOutcomes(c) ==
    IF c.cls = "MvGaussian" THEN {"ok", "boxcox", "gauss"} ELSE {"ok", "search"}

\* contour_classifier.predict(X), the fitted estimator answering mdl[row]
ClfPredict(c, X, mdl) ==
    IF c.cls = "MvGaussian"
    THEN MvPredict(c.self, [i \in 1..Len(X) |-> PdfPos(mdl[X[i]])],
                           [i \in 1..Len(X) |-> PdfNeg(mdl[X[i]])])
    ELSE RfPredict(c.self, [i \in 1..Len(X) |-> Proba(mdl[X[i]])])

\* contour_classifier.threshold
ClfThreshold(c) == IF c.cls = "MvGaussian" THEN MvThreshold ELSE RfThreshold

\* (np.array(Y_prob >= threshold)).astype(int)
Discretize(Y_prob, threshold) ==
    [i \in 1..Len(Y_prob) |->
        IF FLe(threshold, Y_prob[i]) THEN AsInt(1) ELSE AsInt(0)]

---------------------------------------------------------------------------
(* run.py: process_with_labels and process_audio_only.  ce, fe and cc are  *)
(* contour_extractor, feature_extractor and contour_classifier.            *)

\* A logged call: the operation, the block of process that made it, what
\* it was handed and how it ended.
Ev(op, path, in, res) ==
    [op |-> op, path |-> path, in |-> in, err |-> res.err, out |-> res.out]

\* Mutant: the call site refits the classifier before it predicts.
CallPredict_refit(c, X, mdl, path) ==
    LET fit == ClfFit(c, 2, "ok")
        res == ClfPredict(fit.c, X, mdl)
    IN  [c |-> fit.c, res |-> res,
         log |-> <<Ev("fit", path, X, [err |-> fit.err, out |-> None]),
                   Ev("predict", path, X, res)>>]

\* A call site of contour_classifier.predict(X): the classifier after the
\* call, the call's outcome, and the call as logged.
CallPredict(c, X, mdl, path) ==
    LET res == ClfPredict(c, X, mdl)
    IN  [c |-> c, res |-> res, log |-> <<Ev("predict", path, X, res)>>]

\* Mutant: the labels of each file are put in front of the list.
Collect_labelsInFront(acc, X_train, Y_train, ctr, call) ==
    [features_list |-> Append(acc.features_list, X_train),
     labels_list |-> <<Y_train>> \o acc.labels_list,
     contour_list |-> Append(acc.contour_list, ctr),
     log |-> Append(acc.log, call)]

\* Lines 89-91: the three appends of one iteration of process_with_labels
Collect(acc, X_train, Y_train, ctr, call) ==
    [features_list |-> Append(acc.features_list, X_train),
     labels_list |-> Append(acc.labels_list, Y_train),
     contour_list |-> Append(acc.contour_list, ctr),
     log |-> Append(acc.log, call)]

\* Mutant: the triple is inserted at the head of the list.
AppendTriple_atHead(contour_list, ctr, X, Y) ==
    <<(<<ctr, X, Y>>)>> \o contour_list

\* Line 62: contour_list.append((ctr, X, Y))
AppendTriple(contour_list, ctr, X, Y) == Append(contour_list, <<ctr, X, Y>>)

\* Mutant: the handler is missing, every error of score propagates.
TryScore_noHandler(scored) == scored

\* Lines 36-39: try: test_scores = score(...); except ValueError: {}
TryScore(scored) ==
    IF scored.err = "ValueError" THEN Returned(EmptyDict) ELSE scored

RECURSIVE NpConcat(_)
NpConcat(arrays) ==
    IF arrays = <<>> THEN <<>> ELSE Head(arrays) \o NpConcat(Tail(arrays))

\* np.concatenate(arrays): raises on an empty list
NpConcatenate(arrays) ==
    IF arrays = <<>> THEN Raised("ValueError") ELSE Returned(NpConcat(arrays))

\* The loop of process_with_labels over the pairs still to do; acc holds
\* contour_list, features_list, labels_list and the calls logged so far.
RECURSIVE LabelLoop(_, _, _, _, _)
LabelLoop(ce, fe, file_pairs, path, acc) ==
    IF file_pairs = <<>>
    THEN [err |-> "", acc |-> acc]
    ELSE IF ce = None \/ fe = None
         THEN [err |-> "AttributeError", acc |-> acc]
         ELSE LET audio_filepath == Head(file_pairs)[1]
                  annotation == Head(file_pairs)[2]
                  ctr == ComputeContours(audio_filepath)
                  Y_train == ComputeLabels(ctr, annotation)
                  X_train == ComputeAll(ctr)
              IN  LabelLoop(ce, fe,
                            Tail(file_pairs), path,
                            Collect(acc, X_train, Y_train, ctr,
                                    Ev("compute_labels", path, annotation,
                                       Returned(Y_train))))

\* process_with_labels(contour_extractor, feature_extractor, file_pairs)
ProcessWithLabels(ce, fe, file_pairs, path) ==
    LET loop == LabelLoop(ce, fe, file_pairs, path,
                          [features_list |-> <<>>, labels_list |-> <<>>,
                           contour_list |-> <<>>, log |-> <<>>])
        X == NpConcatenate(loop.acc.features_list)
        Y == NpConcatenate(loop.acc.labels_list)
    IN  IF loop.err # ""
        THEN [err |-> loop.err, log |-> loop.acc.log, X |-> <<>>, Y |-> <<>>,
              contour_list |-> <<>>]
        ELSE IF X.err # ""
             THEN [err |-> X.err, log |-> loop.acc.log, X |-> <<>>, Y |-> <<>>,
                   contour_list |-> <<>>]
             ELSE [err |-> "", log |-> loop.acc.log, X |-> X.out, Y |-> Y.out,
                   contour_list |-> loop.acc.contour_list]

\* The loop of process_audio_only over the files still to do
RECURSIVE AudioLoop(_, _, _, _, _, _)
AudioLoop(ce, fe, cc, mdl, audio_files, acc) ==
    IF audio_files = <<>>
    THEN [err |-> "", contour_list |-> acc.contour_list, log |-> acc.log,
          classifier |-> cc]
    ELSE IF ce = None \/ fe = None
              \/ cc = None
         THEN [err |-> "AttributeError", contour_list |-> <<>>,
               log |-> acc.log, classifier |-> cc]
         ELSE LET ctr == ComputeContours(Head(audio_files))
                  X == ComputeAll(ctr)
                  Y == CallPredict(cc[1], X, mdl, "infer")
                  log2 == acc.log \o Y.log
              IN  IF Y.res.err # ""
                  THEN [err |-> Y.res.err, contour_list |-> <<>>,
                        log |-> log2, classifier |-> Some(Y.c)]
                  ELSE AudioLoop(ce, fe,
                                 Some(Y.c), mdl, Tail(audio_files),
                                 [contour_list |->
                                      AppendTriple(acc.contour_list, ctr, X,
                                                   Y.res.out),
                                  log |-> log2])

\* process_audio_only(contour_extractor, feature_extractor,
\*                    contour_classifier, audio_files)
ProcessAudioOnly(ce, fe, cc, mdl, audio_files) ==
    AudioLoop(ce, fe, cc, mdl,
              audio_files, [contour_list |-> <<>>, log |-> <<>>])

---------------------------------------------------------------------------
(* run.py: process *)

\* Lines 14-16: the three modules, looked up in this order
ResolveModules(a, regs, heap) ==
    LET e == GetModule(a.extract_id, regs.extract, heap)
        f == GetModule(a.feature_id, regs.features, e.heap)
        c == GetModule(a.classifier_id, regs.classify, f.heap)
    IN  IF e.err # ""
        THEN [err |-> e.err, extractor |-> None, features |-> None,
              classifier |-> None, heap |-> e.heap,
              registries |-> [regs EXCEPT !.extract = e.registry]]
        ELSE IF f.err # ""
             THEN [err |-> f.err, extractor |-> None, features |-> None,
                   classifier |-> None, heap |-> f.heap,
                   registries |-> [regs EXCEPT !.extract = e.registry,
                                               !.features = f.registry]]
             ELSE [err |-> c.err, extractor |-> e.out, features |-> f.out,
                   classifier |-> IF c.out = None THEN None
                                  ELSE Some(NewClassifier(c.heap[c.out[1]])),
                   heap |-> c.heap,
                   registries |-> [regs EXCEPT !.extract = e.registry,
                                               !.features = f.registry,
                                               !.classify = c.registry]]

\* How a block of process ends: the exception it raises ("" if none), the
\* classifier and fitted estimator it leaves, the locals it bound and the
\* calls it made.
Block(err, cc, mdl, binds, calls) ==
    [err |-> err, classifier |-> cc, model |-> mdl, binds |-> binds,
     log |-> calls]

\* Lines 18-27, training_pairs supplied.  how, fitted and scoreHow are what
\* fit does, what the estimator it leaves answers, and what score does.
TrainingBlock(ce, fe, cc, mdl, training_pairs, how, fitted, scoreHow) ==
    LET pwl == ProcessWithLabels(ce, fe,
                                 training_pairs, "train")
        b1 == [X_train |-> pwl.X, Y_train |-> pwl.Y,
               train_contours |-> pwl.contour_list]
    IN  IF pwl.err # ""
        THEN Block(pwl.err, cc, mdl, <<>>, pwl.log)
        ELSE IF cc = None
        THEN Block("AttributeError", cc, mdl, b1, pwl.log)
        ELSE
        LET fit == ClfFit(cc[1], 1, how)
            log1 == Append(pwl.log,
                           Ev("fit", "train", <<pwl.X, pwl.Y>>,
                              [err |-> fit.err, out |-> None]))
        IN  IF fit.err # ""
            THEN Block(fit.err, Some(fit.c), mdl, b1, log1)
            ELSE
            LET Y_prob == CallPredict(fit.c, pwl.X, fitted, "train")
                log2 == log1 \o Y_prob.log
            IN  IF Y_prob.res.err # ""
                THEN Block(Y_prob.res.err, Some(Y_prob.c), fitted, b1, log2)
                ELSE
                LET Y_pred == Discretize(Y_prob.res.out, ClfThreshold(fit.c))
                    train_scores == Score(Y_pred, pwl.Y, Some(Y_prob.res.out),
                                          scoreHow)
                    log3 == Append(log2,
                                   Ev("score", "train", Y_pred, train_scores))
                    b2 == [Y_prob |-> Y_prob.res.out, Y_pred |-> Y_pred] @@ b1
                IN  IF train_scores.err # ""
                    THEN Block(train_scores.err, Some(Y_prob.c), fitted, b2,
                               log3)
                    ELSE Block("", Some(Y_prob.c), fitted,
                               [train_scores |-> train_scores.out] @@ b2, log3)

\* Lines 29-39, testing_pairs supplied
TestingBlock(ce, fe, cc, mdl, testing_pairs, scoreHow) ==
    LET pwl == ProcessWithLabels(ce, fe,
                                 testing_pairs, "test")
        b1 == [X_test |-> pwl.X, Y_test |-> pwl.Y,
               test_contours |-> pwl.contour_list]
    IN  IF pwl.err # ""
        THEN Block(pwl.err, cc, mdl, <<>>, pwl.log)
        ELSE IF cc = None
        THEN Block("AttributeError", cc, mdl, b1, pwl.log)
        ELSE
        LET Y_pred == CallPredict(cc[1], pwl.X, mdl, "test")
            log1 == pwl.log \o Y_pred.log
        IN  IF Y_pred.res.err # ""
            THEN Block(Y_pred.res.err, Some(Y_pred.c), mdl, b1, log1)
            ELSE
            LET scored == Score(Y_pred.res.out, pwl.Y, None, scoreHow)
                log2 == Append(log1,
                               Ev("score", "test", Y_pred.res.out, scored))
                test_scores == TryScore(scored)
                b2 == [Y_pred |-> Y_pred.res.out] @@ b1
            IN  IF test_scores.err # ""
                THEN Block(test_scores.err, Some(Y_pred.c), mdl, b2, log2)
                ELSE Block("", Some(Y_pred.c), mdl,
                           [test_scores |-> test_scores.out] @@ b2, log2)

\* Lines 41-45, audio_files supplied
InferenceBlock(ce, fe, cc, mdl, audio_files) ==
    LET r == ProcessAudioOnly(ce, fe,
                              cc, mdl, audio_files)
    IN  IF r.err # ""
        THEN Block(r.err, r.classifier, mdl, <<>>, r.log)
        ELSE Block("", r.classifier, mdl,
                   [contour_list |-> r.contour_list], r.log)

\* The names the return statement reads
ReturnNames ==
    <<"train_scores", "test_scores", "train_contours", "test_contours",
      "contour_list">>

ProcessIds ==
    [extract : {None, Some("salamon"), Some("nope")},
     feature : {None, Some("bitteli"), Some("nope")},
     classifier : {None, Some("mv_gaussian"), Some("random_forest"),
                   Some("nope")}]

NoArgs ==
    [audio_files |-> None, training_pairs |-> None, testing_pairs |-> None,
     extract_id |-> None, feature_id |-> None, classifier_id |-> None]

NoModel == [r \in Rows |-> "below"]
NoError == [err |-> "", at |-> ""]

InitProcVars ==
    /\ pc = "idle"
    /\ args = NoArgs
    /\ modules = [extractor |-> None, features |-> None]
    /\ classifier = None
    /\ model = NoModel
    /\ locals = <<>>
    /\ log = <<>>
    /\ procErr = NoError
    /\ result = <<>>

\* process is called: its arguments are bound and lines 14-16 run
ProcessCall ==
    /\ pc = "idle"
    /\ \E ids \in ProcessIds,
          audio_files \in {None} \cup {Some(l) : l \in SeqsUpTo(Files, MaxFiles)},
          training_pairs \in
              {None} \cup {Some(l) : l \in SeqsUpTo(FilePairs, MaxPairs)},
          testing_pairs \in
              {None} \cup {Some(l) : l \in SeqsUpTo(FilePairs, MaxPairs)} :
         LET a == [audio_files |-> audio_files,
                   training_pairs |-> training_pairs,
                   testing_pairs |-> testing_pairs,
                   extract_id |-> ids.extract, feature_id |-> ids.feature,
                   classifier_id |-> ids.classifier]
             r == ResolveModules(a, registries, instances)
         IN  /\ args' = a
             /\ registries' = r.registries
             /\ instances' = r.heap
             /\ modules' = [extractor |-> r.extractor, features |-> r.features]
             /\ classifier' = r.classifier
             /\ pc' = IF r.err # "" THEN "raised" ELSE "train"
             /\ procErr' = IF r.err # "" THEN [err |-> r.err, at |-> "call"]
                           ELSE procErr
    /\ UNCHANGED <<model, locals, log, result, lookups>>

\* A block has run: its effects are applied and process goes on to `next`
\* unless the block raised.
Apply(r, at, next) ==
    /\ classifier' = r.classifier
    /\ model' = r.model
    /\ locals' = r.binds @@ locals
    /\ log' = log \o r.log
    /\ pc' = IF r.err # "" THEN "raised" ELSE next
    /\ procErr' = IF r.err # "" THEN [err |-> r.err, at |-> at] ELSE procErr

Skip(next) ==
    /\ pc' = next
    /\ UNCHANGED <<classifier, model, locals, log, procErr>>

TrainingPath ==
    /\ pc = "train"
    /\ IF args.training_pairs = None
       THEN Skip("test")
       ELSE \E how \in IF classifier = None THEN {"ok"}
                       ELSE FitOutcomes(classifier[1]),
               fitted \in [Rows -> Levels],
               scoreHow \in {"ok", "ValueError"} :
              Apply(TrainingBlock(modules.extractor, modules.features,
                                  classifier, model, args.training_pairs[1],
                                  how, fitted, scoreHow),
                    "train", "test")
    /\ UNCHANGED <<args, modules, result, regVars>>

TestingPath ==
    /\ pc = "test"
    /\ IF args.testing_pairs = None
       THEN Skip("infer")
       ELSE \E scoreHow \in {"ok", "ValueError"} :
              Apply(TestingBlock(modules.extractor, modules.features,
                                 classifier, model, args.testing_pairs[1],
                                 scoreHow),
                    "test", "infer")
    /\ UNCHANGED <<args, modules, result, regVars>>

InferencePath ==
    /\ pc = "infer"
    /\ IF args.audio_files = None
       THEN Skip("return")
       ELSE Apply(InferenceBlock(modules.extractor, modules.features,
                                 classifier, model, args.audio_files[1]),
                  "infer", "return")
    /\ UNCHANGED <<args, modules, result, regVars>>

\* Lines 47-49: the return statement reads five locals
ProcessReturn ==
    /\ pc = "return"
    /\ IF \A i \in 1..Len(ReturnNames) : ReturnNames[i] \in DOMAIN locals
       THEN /\ result' = [i \in 1..Len(ReturnNames) |-> locals[ReturnNames[i]]]
            /\ pc' = "done"
            /\ procErr' = procErr
       ELSE /\ result' = result
            /\ pc' = "raised"
            /\ procErr' = [err |-> "UnboundLocalError", at |-> "return"]
    /\ UNCHANGED <<args, modules, classifier, model, locals, log, regVars>>

NextProc ==
    \/ ProcessCall /\ UNCHANGED clfVars
    \/ TrainingPath /\ UNCHANGED clfVars
    \/ TestingPath /\ UNCHANGED clfVars
    \/ InferencePath /\ UNCHANGED clfVars
    \/ ProcessReturn /\ UNCHANGED clfVars

---------------------------------------------------------------------------
(* The classifier instances under arbitrary call sequences *)

NoCall == [op |-> "none", fittedBefore |-> FALSE, n |-> 0,
           numerator |-> <<>>, denominator |-> <<>>, res |-> Returned(<<>>)]

InitClfVars ==
    /\ mvg = MvInit
    /\ rf = RfInit
    /\ fitCalls = 0
    /\ mvCompleted = FALSE
    /\ rfCompleted = FALSE
    /\ last = NoCall

CallMvFit ==
    /\ subject = "mv"
    /\ fitCalls < MaxFits
    /\ \E how \in {"ok", "boxcox", "gauss"} :
         LET r == MvFit(mvg, fitCalls + 1, how)
         IN  /\ mvg' = r.self
             /\ mvCompleted' = (mvCompleted \/ r.err = "")
             /\ last' = [NoCall EXCEPT !.op = "mv.fit",
                                       !.fittedBefore = mvCompleted,
                                       !.res = [err |-> r.err, out |-> None]]
    /\ fitCalls' = fitCalls + 1
    /\ UNCHANGED <<subject, rf, rfCompleted>>

CallRfFit ==
    /\ subject = "rf"
    /\ fitCalls < MaxFits
    /\ \E how \in {"ok", "search"} :
         LET r == RfFit(rf, fitCalls + 1, how)
         IN  /\ rf' = r.self
             /\ rfCompleted' = (rfCompleted \/ r.err = "")
             /\ last' = [NoCall EXCEPT !.op = "rf.fit",
                                       !.fittedBefore = rfCompleted,
                                       !.res = [err |-> r.err, out |-> None]]
    /\ fitCalls' = fitCalls + 1
    /\ UNCHANGED <<subject, mvg, mvCompleted>>

CallMvPredict ==
    /\ subject = "mv"
    /\ \E n \in 0..MaxSamples :
         \E numerator \in [1..n -> Dens], denominator \in [1..n -> Dens] :
           last' = [op |-> "mv.predict", fittedBefore |-> mvCompleted, n |-> n,
                    numerator |-> numerator, denominator |-> denominator,
                    res |-> MvPredict(mvg, numerator, denominator)]
    /\ UNCHANGED <<subject, mvg, rf, fitCalls, mvCompleted, rfCompleted>>

CallRfPredict ==
    /\ subject = "rf"
    /\ \E n \in 0..MaxSamples :
         \E proba \in [1..n -> Probs] :
           last' = [NoCall EXCEPT !.op = "rf.predict",
                                  !.fittedBefore = rfCompleted, !.n = n,
                                  !.res = RfPredict(rf, proba)]
    /\ UNCHANGED <<subject, mvg, rf, fitCalls, mvCompleted, rfCompleted>>

CallRfPredictDiscreteLabel ==
    /\ subject = "rf"
    /\ \E n \in 0..MaxSamples :
         \E labels \in [1..n -> Labels] :
           last' = [NoCall EXCEPT !.op = "rf.predict_discrete_label",
                                  !.fittedBefore = rfCompleted, !.n = n,
                                  !.res = RfPredictDiscreteLabel(rf, labels)]
    /\ UNCHANGED <<subject, mvg, rf, fitCalls, mvCompleted, rfCompleted>>

NextClf ==
    \/ CallMvFit /\ UNCHANGED <<regVars, procVars>>
    \/ CallRfFit /\ UNCHANGED <<regVars, procVars>>
    \/ CallMvPredict /\ UNCHANGED <<regVars, procVars>>
    \/ CallRfPredict /\ UNCHANGED <<regVars, procVars>>
    \/ CallRfPredictDiscreteLabel /\ UNCHANGED <<regVars, procVars>>

Subjects == {"mv", "rf"}

InitClf == subject \in Subjects /\ InitClfVars /\ InitRegVars /\ InitProcVars

SpecClf == InitClf /\ [][NextClf]_vars

InitReg == subject = "mv" /\ InitClfVars /\ InitRegVars /\ InitProcVars

SpecReg == InitReg /\ [][NextReg]_vars

InitProc == subject = "mv" /\ InitClfVars /\ InitRegVars /\ InitProcVars

SpecProc == InitProc /\ [][NextProc]_vars

---------------------------------------------------------------------------
(* Claims about the classifiers, checked under SpecClf *)

PredictOps == {"mv.predict", "rf.predict", "rf.predict_discrete_label"}

\* C1: a predict-family call (MvGaussian.predict, RandomForest.predict,
\* RandomForest.predict_discrete_label) made on an instance on which no fit
\* call has yet returned raises ReferenceError and returns no scores, also
\* when earlier fit calls on that instance raised part-way.
C1_PredictBeforeFitRaises ==
    (last.op \in PredictOps /\ ~last.fittedBefore)
        => last.res = Raised("ReferenceError")

\* C1 witness: MvGaussian.predict is called after a fit call that raised
\* once _fit_boxcox had stored n_feats and lmbda.
C1_Witness ==
    /\ last.op = "mv.predict"
    /\ ~last.fittedBefore
    /\ mvg.lmbda # None
    /\ last.res.err = "ReferenceError"

FMin(a, b) == IF FLe(a, b) THEN a ELSE b

---------------------------------------------------------------------------
(* Claims about the registry lookup, checked under SpecReg *)

\* C4: get_module has exactly three outcomes.  module_id None returns None
\* and constructs nothing; an identifier that is no key of the registry
\* raises RuntimeError with a message that holds the identifier; a registered
\* identifier calls its constructor once and returns the new instance, so no
\* two lookups return the same instance.  No lookup changes a registry.
C4_GetModuleOutcomes ==
    /\ registries = Registries0
    /\ \A i \in 1..Len(lookups) :
         LET h == lookups[i]
             registry == Registries0[h.kind]
         IN  /\ h.module_id = None =>
                   h.err = "" /\ h.out = None /\ h.after = h.before
             /\ (h.module_id # None /\ h.module_id[1] \notin DOMAIN registry) =>
                   /\ h.err = "RuntimeError"
                   /\ h.out = None
                   /\ \E k \in 1..Len(h.msg) : h.msg[k] = h.module_id[1]
                   /\ h.after = h.before
             /\ (h.module_id # None /\ h.module_id[1] \in DOMAIN registry) =>
                   /\ h.err = ""
                   /\ h.out # None
                   /\ h.after = h.before + 1
                   /\ h.out[1] > h.before
                   /\ h.out[1] <= Len(instances)
                   /\ instances[h.out[1]] = registry[h.module_id[1]]
    /\ \A i, j \in 1..Len(lookups) :
         (i # j /\ lookups[i].out # None /\ lookups[j].out # None)
             => lookups[i].out # lookups[j].out

\* C4 witness: the same registered identifier is looked up twice and an
\* unregistered one once.
C4_Witness ==
    /\ \E i, j \in 1..Len(lookups) :
         /\ i < j
         /\ lookups[i].kind = lookups[j].kind
         /\ lookups[i].module_id = lookups[j].module_id
         /\ lookups[i].out # None
         /\ lookups[j].out # None
         /\ lookups[i].out # lookups[j].out
    /\ \E i \in 1..Len(lookups) : lookups[i].err = "RuntimeError"

---------------------------------------------------------------------------
(* Claims about process, checked under SpecProc *)

Finished == pc \in {"done", "raised"}

IsRegistered(module_id, registry) ==
    module_id # None /\ module_id[1] \in DOMAIN registry

\* The three identifiers of the invocation name registered modules
ModulesResolve ==
    /\ IsRegistered(args.extract_id, Registries0.extract)
    /\ IsRegistered(args.feature_id, Registries0.features)
    /\ IsRegistered(args.classifier_id, Registries0.classify)

NonEmptyIfSupplied(list) == list # None => list[1] # <<>>

Calls(op, path) == {i \in 1..Len(log) : log[i].op = op /\ log[i].path = path}
CallsOf(op) == {i \in 1..Len(log) : log[i].op = op}

\* C5 (as claimed): whichever of training_pairs, testing_pairs and
\* audio_files are supplied, an invocation whose modules resolve, whose
\* supplied lists are non-empty and in which neither fit nor the training
\* score raises returns its result tuple: no absent input makes it fail.
C5_PathsIndependent ==
    ( /\ Finished
      /\ ModulesResolve
      /\ NonEmptyIfSupplied(args.training_pairs)
      /\ NonEmptyIfSupplied(args.testing_pairs)
      /\ NonEmptyIfSupplied(args.audio_files)
      /\ \A i \in 1..Len(log) :
           (log[i].op \in {"fit", "score"} /\ log[i].path = "train")
               => log[i].err = "" )
    => pc = "done"

TrainingReachesFit ==
    /\ args.training_pairs # None
    /\ args.training_pairs[1] # <<>>
    /\ ModulesResolve

IsUnknown(module_id, registry) ==
    module_id # None /\ module_id[1] \notin DOMAIN registry

\* The first of the three lookups that raises, if any, is for an identifier
\* that is not registered
LookupRaises ==
    \/ IsUnknown(args.extract_id, Registries0.extract)
    \/ IsUnknown(args.feature_id, Registries0.features)
    \/ IsUnknown(args.classifier_id, Registries0.classify)

\* C7: a ValueError of score on the testing path leaves test_scores = {} and
\* process goes on to the inference path; a ValueError of score on the
\* training path propagates out of process; test_scores is empty for no other
\* reason, and a ReferenceError of predict or the RuntimeError of an unknown
\* identifier always propagates.
C7_ScoreErrorHandling ==
    /\ \A i \in Calls("score", "test") :
         log[i].err = "ValueError" =>
             /\ "test_scores" \in DOMAIN locals
             /\ DOMAIN locals["test_scores"] = {}
             /\ pc \in {"infer", "return", "done", "raised"}
             /\ pc = "raised" => procErr.at \in {"infer", "return"}
    /\ \A i \in Calls("score", "train") :
         log[i].err = "ValueError" =>
             /\ pc = "raised"
             /\ procErr = [err |-> "ValueError", at |-> "train"]
             /\ "train_scores" \notin DOMAIN locals
    /\ ("test_scores" \in DOMAIN locals /\ DOMAIN locals["test_scores"] = {})
           => \E i \in Calls("score", "test") : log[i].err = "ValueError"
    /\ \A i \in 1..Len(log) :
         log[i].err = "ReferenceError" =>
             /\ pc = "raised"
             /\ procErr = [err |-> "ReferenceError", at |-> log[i].path]
    /\ (pc # "idle" /\ LookupRaises) =>
             /\ pc = "raised"
             /\ procErr = [err |-> "RuntimeError", at |-> "call"]
             /\ locals = <<>>

\* C7 witness: score raised ValueError on the testing path and the
\* invocation went on through the inference path and returned.
C7_Witness ==
    /\ pc = "done"
    /\ \E i \in Calls("score", "test") : log[i].err = "ValueError"
    /\ Calls("predict", "infer") # {}
    /\ result[2] = EmptyDict

\* C8 (as claimed): every score call of process, on the training and on the
\* testing path, is handed the labels obtained from the scores predict just
\* returned by thresholding them at the classifier's threshold.
C8_ScoreGetsLabels ==
    \A j \in CallsOf("score") :
        /\ j > 1
        /\ log[j - 1].op = "predict"
        /\ log[j - 1].path = log[j].path
        /\ log[j].in = Discretize(log[j - 1].out, ClfThreshold(classifier[1]))


IsInferCall(e) == e.path = "infer"

\* The score a fitted estimator of class cls gives a row of that level
ExpectedScore(cls, level) ==
    IF cls = "MvGaussian"
    THEN CASE level = "below" -> Frac(1, 2)
           [] level = "at" -> Frac(1, 1)
           [] OTHER -> Frac(2, 1)
    ELSE CASE level = "below" -> Frac(1, 4)
           [] level = "at" -> Frac(1, 2)
           [] OTHER -> Frac(3, 4)

\* What process_audio_only has called and returned, in any state
C9_InferenceCalls ==
    LET calls == SelectSeq(log, IsInferCall)
    IN  /\ \A i \in 1..Len(calls) : calls[i].op = "predict"
        /\ args.audio_files # None => Len(calls) <= Len(args.audio_files[1])
        /\ "contour_list" \in DOMAIN locals =>
             LET audio_files == args.audio_files[1]
                 contour_list == locals["contour_list"]
             IN  /\ Len(contour_list) = Len(audio_files)
                 /\ Len(calls) = Len(audio_files)
                 /\ \A i \in 1..Len(audio_files) :
                      LET f == audio_files[i]
                          ctr == contour_list[i][1]
                          X == contour_list[i][2]
                          Y == contour_list[i][3]
                      IN  /\ ctr = [audio |-> f]
                          /\ X = [k \in 1..NContours(f) |-> <<f, k>>]
                          /\ Len(Y) = Len(X)
                          /\ \A k \in 1..Len(X) :
                               FEq(Y[k], ExpectedScore(classifier[1].cls,
                                                       model[<<f, k>>]))
                          /\ calls[i].in = X

\* C9: process_audio_only returns one (contour, features, scores) triple per
\* audio file, in the order of audio_files, the i-th triple computed from the
\* i-th file; it calls predict once per file and never fit, compute_labels or
\* score, and it leaves the classifier's fitted state as it found it.
C9_AudioOnly ==
    /\ []C9_InferenceCalls
    /\ [][pc = "infer" => (classifier' = classifier /\ model' = model)]_vars

\* C9 witness: process_audio_only has returned the triples of two different
\* files, scored by a fitted classifier.
C9_Witness ==
    /\ "contour_list" \in DOMAIN locals
    /\ Len(locals["contour_list"]) = 2
    /\ locals["contour_list"][1][1] # locals["contour_list"][2][1]
    /\ Len(SelectSeq(log, IsInferCall)) = 2

\* The label-vector lengths of the files before the i-th pair, summed
RECURSIVE LabelsBefore(_, _)
LabelsBefore(file_pairs, i) ==
    IF i <= 1
    THEN 0
    ELSE LabelsBefore(file_pairs, i - 1)
         + Len(ComputeLabels(ComputeContours(file_pairs[i - 1][1]),
                             file_pairs[i - 1][2]))

\* X, Y and contour_list are what process_with_labels owes for file_pairs
Labelled(file_pairs, X, Y, contour_list) ==
    /\ Len(contour_list) = Len(file_pairs)
    /\ Len(X) = LabelsBefore(file_pairs, Len(file_pairs) + 1)
    /\ Len(Y) = Len(X)
    /\ \A i \in 1..Len(file_pairs) :
         LET f == file_pairs[i][1]
             off == LabelsBefore(file_pairs, i)
         IN  /\ contour_list[i] = [audio |-> f]
             /\ \A k \in 1..NContours(f) :
                  /\ X[off + k] = <<f, k>>
                  /\ Y[off + k] =
                         ComputeLabels(contour_list[i], file_pairs[i][2])[k]

\* C10: for a non-empty list of pairs process_with_labels returns X and Y as
\* the row-wise concatenations, in file order, of the per-file feature
\* matrices and label vectors, with one contour per file in the same order;
\* X has as many rows as the per-file label vectors have entries together,
\* so len(Y) is the row count of X and Y[k] labels row k.
C10_LabelledConcatenation ==
    /\ "X_train" \in DOMAIN locals =>
           Labelled(args.training_pairs[1], locals["X_train"],
                    locals["Y_train"], locals["train_contours"])
    /\ "X_test" \in DOMAIN locals =>
           Labelled(args.testing_pairs[1], locals["X_test"],
                    locals["Y_test"], locals["test_contours"])
    /\ ( /\ pc \notin {"idle", "train"}
         /\ procErr.at # "call"
         /\ args.training_pairs # None
         /\ args.training_pairs[1] # <<>>
         /\ modules.extractor # None
         /\ modules.features # None )
       => "X_train" \in DOMAIN locals

\* C10 witness: the training matrix holds the rows of two files, the
\* two-contour file first.
C10_Witness ==
    /\ "X_train" \in DOMAIN locals
    /\ Len(args.training_pairs[1]) = 2
    /\ args.training_pairs[1][1][1] = "b.wav"
    /\ args.training_pairs[1][2][1] = "a.wav"
    /\ Len(locals["X_train"]) = 3

---------------------------------------------------------------------------
(* The stored fitted state, checked under SpecClf *)

\* The four attributes of an MvGaussian are all unset, or all hold what one
\* fit call stored.
MvWhole(self) ==
    \/ self = MvInit
    \/ \E k \in 1..MaxFits :
         self = [rv_pos |-> Some(k), rv_neg |-> Some(k), n_feats |-> Some(k),
                 lmbda |-> Some(k)]

\* The step is a fit call, and the call raised.
FitRaised ==
    /\ fitCalls' = fitCalls + 1
    /\ last'.op \in {"mv.fit", "rf.fit"}
    /\ last'.res.err # ""

\* C11: after any sequence of fit and predict calls on one classifier
\* instance, fit calls that raise part-way included, the stored fitted state
\* is never a mix of two fit calls: the four fields n_feats, lmbda, rv_pos
\* and rv_neg of an MvGaussian all come from the same fit call (or are all
\* unset), clf of a RandomForest is the previous best estimator or the new
\* one, and a fit that raises leaves the state exactly as it was before the
\* call.
C11_FitReplacesWholesale ==
    [][ /\ MvWhole(mvg')
        /\ rf'.clf \in {rf.clf, Some(fitCalls')}
        /\ FitRaised => (mvg' = mvg /\ rf' = rf) ]_vars

====
